---- MODULE Spec2Model ----
(***************************************************************************)
(* Model of src/src/CommandHandler.ts (vscode-ltex-plus):                  *)
(*   - checkAllDocumentsInWorkspace / checkDocument (the batch checker),   *)
(*   - addToLanguageSpecificSetting and its two storage back ends.         *)
(* Strings that the code inspects (paths, file extensions, scope strings)  *)
(* are sequences of one-character strings, so that startsWith, endsWith,   *)
(* sort and localeCompare are computed, not assumed.                       *)
(***************************************************************************)
EXTENDS Integers, Sequences, FiniteSets, TLC

\* ------------------------------------------------------------------ bounds
\* Number of files of the file universe that may be present in the workspace.
NumFiles == 4
\* Largest number of languages in the entries map of one add command.
MaxLanguages == 2

\* ------------------------------------------------------------ string tools
Min(a, b) == IF a < b THEN a ELSE b

\* UTF-16 code units of the characters that occur in the model.
CharCode == [c \in {".", "B", "a", "b", "c", "d", "e", "f", "i", "m", "o", "r",
                     "t", "x"} |->
  CASE c = "." -> 46 [] c = "B" -> 66 [] c = "a" -> 97 [] c = "b" -> 98
    [] c = "c" -> 99 [] c = "d" -> 100 [] c = "e" -> 101 [] c = "f" -> 102
    [] c = "i" -> 105 [] c = "m" -> 109 [] c = "o" -> 111 [] c = "r" -> 114
    [] c = "t" -> 116 [] c = "x" -> 120]

\* Collation weights of the same characters: punctuation sorts before
\* letters, letters by alphabet regardless of case (primary), and on a
\* primary tie a lower-case letter before its upper-case form (tertiary).
Primary == [c \in DOMAIN CharCode |->
  CASE c = "." -> 0 [] c = "a" -> 1 [] c = "b" -> 2 [] c = "B" -> 2
    [] c = "c" -> 3 [] c = "d" -> 4 [] c = "e" -> 5 [] c = "f" -> 6
    [] c = "i" -> 9 [] c = "m" -> 13 [] c = "o" -> 15 [] c = "r" -> 18
    [] c = "t" -> 20 [] c = "x" -> 24]

Tertiary == [c \in DOMAIN CharCode |-> IF c = "B" THEN 1 ELSE 0]

\* Lexicographic comparison of two strings under a weight function:
\* -1, 0 or 1.
RECURSIVE CompareBy(_, _, _)
CompareBy(w, l, r) ==
  IF l = <<>> /\ r = <<>> THEN 0
  ELSE IF l = <<>> THEN -1
  ELSE IF r = <<>> THEN 1
  ELSE IF w[Head(l)] < w[Head(r)] THEN -1
  ELSE IF w[Head(l)] > w[Head(r)] THEN 1
  ELSE CompareBy(w, Tail(l), Tail(r))

\* String.prototype.localeCompare on two paths.
LocaleCompare(l, r) ==
  IF CompareBy(Primary, l, r) # 0 THEN CompareBy(Primary, l, r)
  ELSE CompareBy(Tertiary, l, r)

\* The default comparison of Array.prototype.sort: by code units.
CodeUnitCompare(l, r) == CompareBy(CharCode, l, r)

StartsWith(s, p) == Len(p) <= Len(s) /\ SubSeq(s, 1, Len(p)) = p

EndsWith(s, p) ==
  Len(p) <= Len(s) /\ SubSeq(s, Len(s) - Len(p) + 1, Len(s)) = p

\* Array.prototype.sort is stable: the element at position k of the input
\* comes after exactly the elements that compare less and the equal ones
\* that stand before it.
SortLocale(s) ==
  LET before(j, k) ==
        \/ LocaleCompare(s[j], s[k]) < 0
        \/ LocaleCompare(s[j], s[k]) = 0 /\ j < k
  IN [n \in 1..Len(s) |->
        s[CHOOSE k \in 1..Len(s) :
            Cardinality({j \in 1..Len(s) : before(j, k)}) = n - 1]]

SortCodeUnit(s) ==
  LET before(j, k) ==
        \/ CodeUnitCompare(s[j], s[k]) < 0
        \/ CodeUnitCompare(s[j], s[k]) = 0 /\ j < k
  IN [n \in 1..Len(s) |->
        s[CHOOSE k \in 1..Len(s) :
            Cardinality({j \in 1..Len(s) : before(j, k)}) = n - 1]]

Range(s) == {s[k] : k \in 1..Len(s)}

\* The sequences that list every element of a finite set exactly once.
Permutations_(S) ==
  {p \in [1..Cardinality(S) -> S] : \A x \in S : \E k \in DOMAIN p : p[k] = x}

\* ---------------------------------------------------------------- inputs
bib == <<"b", "i", "b">>
md == <<"m", "d">>
tex == <<"t", "e", "x">>

\* Paths that the document enumeration can return.
FileUniverse == <<
  <<"b", ".", "t", "e", "x">>,
  <<"a", ".", "t", "e", "x">>,
  <<"c", ".", "t", "e", "x">>,
  <<"B", ".", "m", "d">>,
  <<"a", ".", "b", "i", "b">> >>

Files == {FileUniverse[k] : k \in 1..Min(NumFiles, Len(FileUniverse))}

\* Values of the setting ltex.enabled: a boolean or a list of code
\* language ids.
EnabledValues == {
  [kind |-> "boolean", bool |-> TRUE, ids |-> <<>>],
  [kind |-> "boolean", bool |-> FALSE, ids |-> <<>>],
  [kind |-> "list", bool |-> FALSE, ids |-> <<>>],
  [kind |-> "list", bool |-> FALSE, ids |-> <<"latex">>],
  [kind |-> "list", bool |-> FALSE, ids |-> <<"rsweave", "markdown", "latex">>],
  [kind |-> "list", bool |-> FALSE, ids |-> <<"html", "bibtex">>] }


\* The scopes of the configuration store, most specific first.
Precedence == <<"WorkspaceFolder", "Workspace", "Global">>

Scopes == Range(Precedence)

\* A value of a string setting: null (absent) or a string.
Null == [null |-> TRUE, str |-> <<>>]

Str(s) == [null |-> FALSE, str |-> s]

workspaceFolderStr == <<"w", "o", "r", "k", "s", "p", "a", "c", "e", "F", "o", "l", "d", "e", "r">>
workspaceStr == <<"w", "o", "r", "k", "s", "p", "a", "c", "e">>
userStr == <<"u", "s", "e", "r">>
globalStr == <<"g", "l", "o", "b", "a", "l">>
ExternalFileStr == <<"E", "x", "t", "e", "r", "n", "a", "l", "F", "i", "l", "e">>
invalidScopeStr == <<"i", "n", "v", "a", "l", "i", "d", "S", "c", "o", "p", "e">>
workStr == <<"w", "o", "r", "k">>

foo == <<"f", "o", "o">>
bar == <<"b", "a", "r">>

SettingNames == {"dictionary", "disabledRules", "hiddenFalsePositives"}

DeprecatedNames == {"addToDictionary", "disableRule", "ignoreRuleInSentence"}

\* Values of ltex.configurationTarget.<name> tried for the setting itself.
ScopeStrings == {
  Str(workspaceFolderStr), Str(workspaceFolderStr \o ExternalFileStr),
  Str(workspaceStr), Str(workspaceStr \o ExternalFileStr),
  Str(userStr), Str(userStr \o ExternalFileStr), Str(globalStr),
  Str(invalidScopeStr), Str(ExternalFileStr), Str(workStr), Str(<<>>) }

\* The section ltex.configurationTarget: either the three settings hold one
\* value and the deprecated names other ones, or the three settings are
\* absent and only deprecated names are set.
ConfigurationTargets ==
  {[k \in SettingNames \cup DeprecatedNames |->
      IF k \in SettingNames THEN v
      ELSE IF k = "addToDictionary" THEN Str(userStr)
      ELSE IF k = "disableRule" THEN Str(invalidScopeStr)
      ELSE Str(workspaceStr)] : v \in ScopeStrings}
  \cup
  {[k \in SettingNames \cup DeprecatedNames |->
      IF k \in SettingNames THEN Null
      ELSE IF k = "addToDictionary" THEN Str(workspaceStr)
      ELSE IF k = "disableRule" THEN Str(userStr \o ExternalFileStr)
      ELSE Null],
   [k \in SettingNames \cup DeprecatedNames |->
      IF k \in SettingNames THEN Null
      ELSE IF k = "addToDictionary" THEN Null
      ELSE IF k = "disableRule" THEN Str(invalidScopeStr)
      ELSE Str(globalStr)]}

LanguageUniverse == <<"en-US", "de-DE", "fr">>

Languages ==
  {LanguageUniverse[k] : k \in 1..Min(MaxLanguages, Len(LanguageUniverse))}

\* The entries a command adds for a language.
NewValues == [l \in Range(LanguageUniverse) |->
  CASE l = "en-US" -> <<foo, bar>>
    [] l = "de-DE" -> <<bar, bar>>
    [] OTHER -> <<foo>>]

\* The entries maps of a command: any languages in any key order.
EntriesMaps ==
  UNION {{[k \in 1..Len(p) |-> [language |-> p[k], values |-> NewValues[p[k]]]] :
            p \in Permutations_(L)} : L \in SUBSET Languages}

NoSetting == [s \in Scopes |-> <<>>]

\* Contents of the inline setting before the command, per scope.
StoredSettings == {
  NoSetting,
  [NoSetting EXCEPT !["Global"] = ("en-US" :> <<foo>>)],
  [NoSetting EXCEPT !["WorkspaceFolder"] = ("de-DE" :> <<foo>>),
                    !["Global"] = ("en-US" :> <<foo, bar>>)],
  [NoSetting EXCEPT !["Workspace"] = ("en-US" :> <<bar>>),
                    !["Global"] = ("en-US" :> <<foo>>) @@ ("de-DE" :> <<foo>>)] }

\* External files that exist before the command, by <<scope, language>>,
\* with their contents.
StoredExternalFiles == {
  <<>>,
  (<<"Global", "en-US">> :> <<foo>>) @@ (<<"Global", "de-DE">> :> <<>>),
  (<<"Workspace", "en-US">> :> <<>>) @@ (<<"Global", "en-US">> :> <<>>),
  (<<"WorkspaceFolder", "de-DE">> :> <<>>) @@ (<<"Workspace", "de-DE">> :> <<>>) }

\* The document of the active text editor.
ActiveDocument == FileUniverse[1]

VARIABLES
  languageClient,            \* this._languageClient: "null" or "client"
  enabled,                   \* the setting ltex.enabled
  workspaceFolders,          \* Code.workspace.workspaceFolders: "null" or "folders"
  files,                     \* the files of the workspace
  isCancellationRequested,   \* token.isCancellationRequested
  cancelledAt,               \* pc at the moment the token was cancelled, or "never"
  pc,                        \* position of checkAllDocumentsInWorkspace
  found,                     \* the resolved value of findFiles
  uris,                      \* uris after the sort
  i,                         \* number of documents whose check has completed with success
  requests,                  \* the check requests sent, in order
  inFlight,                  \* positions in requests not yet answered
  responses,                 \* result.success of every answered request, in order
  shownErrors,               \* Code.window.showErrorMessage calls
  returned,                  \* the resolved value of the command: "none", "true", "false"
  activeTextEditor,          \* Code.window.activeTextEditor: "null" or "editor"
  configurationTarget,       \* the section ltex.configurationTarget
  settings,                  \* the inline setting settingName, per scope
  externalFiles,             \* the existing external files and their contents
  settingName,               \* argument of addToLanguageSpecificSetting
  entries,                   \* argument of addToLanguageSpecificSetting
  addPc,                     \* "idle" before the add command, "called" after its synchronous part
  scopes,                    \* the scope chain the command derived
  appends,                   \* appendToFile calls, in order
  tasks,                     \* calls of addToLanguageSpecificSettingInternalSetting
  loggedErrors               \* Logger.error calls, in order

batchVars == <<languageClient, enabled, workspaceFolders, files,
  isCancellationRequested, cancelledAt, pc, found, uris, i, requests, inFlight,
  responses, shownErrors, returned>>

envVars == <<activeTextEditor, configurationTarget, settingName, entries>>

addVars == <<settings, externalFiles, addPc, scopes, appends, tasks,
  loggedErrors>>

vars == <<batchVars, envVars, addVars>>

\* ------------------------------------------------ getEnabledFileExtensions
\* Set.prototype.add: a Set keeps insertion order and ignores a present value.
SetAdd(set, x) == IF x \in Range(set) THEN set ELSE Append(set, x)

RECURSIVE AddExtensions(_, _)
AddExtensions(set, ids) ==
  IF ids = <<>> THEN set
  ELSE LET codeLanguageId == Head(ids)
           next == CASE codeLanguageId = "bibtex" -> SetAdd(set, bib)
                     [] codeLanguageId \in {"latex", "rsweave"} -> SetAdd(set, tex)
                     [] codeLanguageId = "markdown" -> SetAdd(set, md)
                     [] OTHER -> set
       IN AddExtensions(next, Tail(ids))

\* Mutant of getEnabledFileExtensions: the extensions are returned in
\* insertion order.
getEnabledFileExtensionsUnsorted(en) ==
  AddExtensions(<<>>,
    IF en.kind = "boolean"
    THEN (IF en.bool THEN <<"bibtex", "latex", "markdown", "rsweave">> ELSE <<>>)
    ELSE en.ids)

\* The body of getEnabledFileExtensions for each value of ltex.enabled that
\* the model draws; the function is pure, so its results are tabulated.
EnabledFileExtensionsOf ==
  [en \in EnabledValues |->
     LET enabledCodeLanguageIds ==
           IF en.kind = "boolean"
           THEN (IF en.bool THEN <<"bibtex", "latex", "markdown", "rsweave">>
                 ELSE <<>>)
           ELSE en.ids
     IN SortCodeUnit(AddExtensions(<<>>, enabledCodeLanguageIds))]

getEnabledFileExtensions(en) == EnabledFileExtensionsOf[en]

\* The glob **/*.{ext,...} matches a path that ends with "." and one of the
\* extensions.
Matches(path, fileExtensions) ==
  \E k \in 1..Len(fileExtensions) : EndsWith(path, <<".">> \o fileExtensions[k])

\* ------------------------------------------------------------ batch check
Msg(key, arg) == [msg |-> key, arg |-> arg]

\* The part of the state that one step of checkAllDocumentsInWorkspace
\* can change.
Local == [pc |-> pc, i |-> i, requests |-> requests, inFlight |-> inFlight,
  shownErrors |-> shownErrors, returned |-> returned]

Assign(t) ==
  /\ pc' = t.pc
  /\ i' = t.i
  /\ requests' = t.requests
  /\ inFlight' = t.inFlight
  /\ shownErrors' = t.shownErrors
  /\ returned' = t.returned

Return(s, value) == [s EXCEPT !.pc = "done", !.returned = value]

ShowErrorMessage(s, key, arg) ==
  [s EXCEPT !.shownErrors = Append(@, Msg(key, arg))]

\* Mutant of SortUris: the enumeration order is kept.
SortUrisOmitted(us) == us

\* uris.sort((lhs, rhs) => lhs.fsPath.localeCompare(rhs.fsPath))
SortUris(us) == SortLocale(us)

\* Mutant of AfterLoop: the batch succeeds silently when nothing was found.
AfterLoopAlwaysTrue(s, n) == Return(s, "true")
\* The end of the callback, after the loop.
AfterLoop(s, n) ==
  IF n > 0 THEN Return(s, "true")
  ELSE Return(ShowErrorMessage(s,
         IF workspaceFolders = "null"
         THEN "couldNotCheckDocumentsAsNoFoldersWereOpened"
         ELSE "couldNotCheckDocumentsAsNoDocumentsWereFound", <<>>), "false")

\* checkDocument up to its await: without a language client it shows an
\* error and resolves to false, which the loop turns into the batch's
\* result; otherwise it sends the request and the callback is suspended.
CheckDocument(s, uri) ==
  IF languageClient = "null"
  THEN Return(ShowErrorMessage(s, "ltexNotInitialized", <<>>), "false")
  ELSE [s EXCEPT !.pc = "checking",
                 !.requests = Append(@, uri),
                 !.inFlight = @ \cup {Len(s.requests) + 1}]

\* Mutant of LoopFrom: checkDocument is called without await, so the loop
\* sends the requests for all remaining documents and falls through.
LoopFromNoAwait(s, us, k) ==
  IF k <= Len(us)
  THEN IF isCancellationRequested \/ languageClient = "null"
       THEN Return(s, "true")
       ELSE Return([s EXCEPT
              !.requests = @ \o SubSeq(us, k, Len(us)),
              !.inFlight = @ \cup ((Len(s.requests) + 1) ..
                                    (Len(s.requests) + Len(us) - k + 1))],
              "true")
  ELSE AfterLoop(s, Len(us))

\* Mutant of LoopFrom: the token is not polled before a document.
LoopFromNoPoll(s, us, k) ==
  IF k <= Len(us) THEN CheckDocument(s, us[k])
  ELSE AfterLoop(s, Len(us))
\* The loop from the iteration for position k (1-based) up to the next
\* suspension or return.
LoopFrom(s, us, k) ==
  IF k <= Len(us)
  THEN IF isCancellationRequested THEN Return(s, "true")
       ELSE CheckDocument(s, us[k])
  ELSE AfterLoop(s, Len(us))

\* Mutant of AfterCheck: the result of the check is ignored.
AfterCheckIgnoringFailure(s, us, k, success) ==
  LoopFrom([s EXCEPT !.i = k], us, k + 1)

\* Mutant of AfterCheck: the token is polled before the result is looked at.
AfterCheckCancelFirst(s, us, k, success) ==
  IF isCancellationRequested THEN Return([s EXCEPT !.i = k], "true")
  ELSE IF success THEN LoopFrom([s EXCEPT !.i = k], us, k + 1)
  ELSE Return(ShowErrorMessage(s, "couldNotCheckDocument", us[k]), "false")
\* Mutant of AfterCheck: a failed check is sent again while documents remain.
AfterCheckRetry(s, us, k, success) ==
  IF success THEN LoopFrom([s EXCEPT !.i = k], us, k + 1)
  ELSE IF k < Len(us) THEN CheckDocument(s, us[k])
  ELSE Return(ShowErrorMessage(s, "couldNotCheckDocument", us[k]), "false")
\* Mutant of AfterCheck: a failed check ends the batch without a message.
AfterCheckSilent(s, us, k, success) ==
  IF success THEN LoopFrom([s EXCEPT !.i = k], us, k + 1)
  ELSE Return(s, "false")
\* The rest of checkDocument and of the loop body once the response to the
\* request for position k has arrived.
AfterCheck(s, us, k, success) ==
  IF success THEN LoopFrom([s EXCEPT !.i = k], us, k + 1)
  ELSE Return(ShowErrorMessage(s, "couldNotCheckDocument", us[k]), "false")

\* ---------------------------------------------------------------- actions
\* The command is invoked: without a language client it fails at once,
\* otherwise withProgress shows the notification.
Invoke ==
  /\ pc = "idle"
  /\ Assign(IF languageClient = "null"
            THEN Return(ShowErrorMessage(Local, "ltexNotInitialized", <<>>), "false")
            ELSE [Local EXCEPT !.pc = "progress"])
  /\ UNCHANGED <<languageClient, enabled, workspaceFolders, files,
       isCancellationRequested, cancelledAt, found, uris, responses>>
  /\ UNCHANGED <<envVars, addVars>>

\* The callback of withProgress runs up to the await of findFiles.
StartCallback ==
  /\ pc = "progress"
  /\ Assign(IF isCancellationRequested THEN Return(Local, "true")
            ELSE IF getEnabledFileExtensions(enabled) = <<>> THEN Return(Local, "true")
            ELSE [Local EXCEPT !.pc = "finding"])
  /\ UNCHANGED <<languageClient, enabled, workspaceFolders, files,
       isCancellationRequested, cancelledAt, found, uris, responses>>
  /\ UNCHANGED <<envVars, addVars>>

\* findFiles resolves with the matching files in some order.
FindFilesResolve ==
  /\ pc = "finding"
  /\ \E p \in Permutations_({f \in files :
                              Matches(f, getEnabledFileExtensions(enabled))}) :
       found' = p
  /\ pc' = "found"
  /\ UNCHANGED <<languageClient, enabled, workspaceFolders, files,
       isCancellationRequested, cancelledAt, uris, i, requests, inFlight,
       responses, shownErrors, returned>>
  /\ UNCHANGED <<envVars, addVars>>

\* The callback resumes: sort, then the loop up to its first suspension.
FindFilesContinue ==
  /\ pc = "found"
  /\ uris' = SortUris(found)
  /\ Assign(LoopFrom(Local, uris', 1))
  /\ UNCHANGED <<languageClient, enabled, workspaceFolders, files,
       isCancellationRequested, cancelledAt, found, responses>>
  /\ UNCHANGED <<envVars, addVars>>

\* The language server answers an outstanding check request; checkDocument
\* and the loop resume.
CheckResponse ==
  /\ pc = "checking"
  /\ \E r \in inFlight, success \in BOOLEAN :
       /\ responses' = Append(responses, success)
       /\ Assign(AfterCheck([Local EXCEPT !.inFlight = @ \ {r}], uris, r, success))
  /\ UNCHANGED <<languageClient, enabled, workspaceFolders, files,
       isCancellationRequested, cancelledAt, found, uris>>
  /\ UNCHANGED <<envVars, addVars>>

\* The user presses Cancel on the progress notification.
Cancel ==
  /\ pc \in {"progress", "finding", "found", "checking"}
  /\ ~isCancellationRequested
  /\ isCancellationRequested' = TRUE
  /\ cancelledAt' = pc
  /\ UNCHANGED <<languageClient, enabled, workspaceFolders, files, pc, found,
       uris, i, requests, inFlight, responses, shownErrors, returned>>
  /\ UNCHANGED <<envVars, addVars>>

\* The setter languageClient is called while the command runs (the server
\* stops or starts).
SetLanguageClient ==
  /\ pc \in {"progress", "finding", "found", "checking"}
  /\ languageClient' = IF languageClient = "null" THEN "client" ELSE "null"
  /\ UNCHANGED <<enabled, workspaceFolders, files, isCancellationRequested,
       cancelledAt, pc, found, uris, i, requests, inFlight, responses,
       shownErrors, returned>>
  /\ UNCHANGED <<envVars, addVars>>

InitCheckAll ==
  /\ languageClient \in {"null", "client"}
  /\ enabled \in EnabledValues
  /\ workspaceFolders \in {"null", "folders"}
  /\ files \in SUBSET Files
  /\ workspaceFolders = "null" => files = {}
  /\ isCancellationRequested = FALSE
  /\ cancelledAt = "never"
  /\ pc = "idle"
  /\ found = <<>>
  /\ uris = <<>>
  /\ i = 0
  /\ requests = <<>>
  /\ inFlight = {}
  /\ responses = <<>>
  /\ shownErrors = <<>>
  /\ returned = "none"
  /\ activeTextEditor = "null"
  /\ configurationTarget \in ConfigurationTargets
  /\ configurationTarget["dictionary"] = Null
  /\ configurationTarget["addToDictionary"] = Null
  /\ settings = NoSetting
  /\ externalFiles = <<>>
  /\ settingName = "dictionary"
  /\ entries = <<>>
  /\ addPc = "idle"
  /\ scopes = <<>>
  /\ appends = <<>>
  /\ tasks = <<>>
  /\ loggedErrors = <<>>

NextCheckAll ==
  \/ Invoke
  \/ StartCallback
  \/ FindFilesResolve
  \/ FindFilesContinue
  \/ CheckResponse
  \/ Cancel
  \/ SetLanguageClient

SpecCheckAll == InitCheckAll /\ [][NextCheckAll]_vars

\* checkAllDocumentsInWorkspace under the scheduling the code relies on:
\* findFiles and every check request sent are eventually answered, and the
\* event loop eventually runs a callback or continuation that is ready.
SpecCheckAllFair ==
  /\ SpecCheckAll
  /\ WF_vars(StartCallback)
  /\ WF_vars(FindFilesResolve)
  /\ WF_vars(FindFilesContinue)
  /\ WF_vars(CheckResponse)
\* ------------------------------------------------ addToLanguageSpecificSetting
\* Lines 257-270: the setting itself and, when it is absent, the deprecated
\* name that belongs to settingName.
ResolveScopeString(target, name) ==
  IF ~target[name].null THEN target[name]
  ELSE IF name = "dictionary" THEN target["addToDictionary"]
  ELSE IF name = "disabledRules" THEN target["disableRule"]
  ELSE IF name = "hiddenFalsePositives" THEN target["ignoreRuleInSentence"]
  ELSE target[name]

\* Mutant of ScopesOf: the test for "workspace" comes first.
ScopesOfWorkspaceFirst(scopeString) ==
  IF scopeString.null
  THEN <<"WorkspaceFolder", "Workspace", "Global">>
  ELSE IF StartsWith(scopeString.str, workspaceStr)
  THEN <<"Workspace", "Global">>
  ELSE IF StartsWith(scopeString.str, workspaceFolderStr)
  THEN <<"WorkspaceFolder", "Workspace", "Global">>
  ELSE IF StartsWith(scopeString.str, userStr)
          \/ StartsWith(scopeString.str, globalStr)
  THEN <<"Global">>
  ELSE <<>>

\* Mutant of ScopesOf: an unrecognized value falls back to the global scope.
ScopesOfDefaultGlobal(scopeString) ==
  IF scopeString.null \/ StartsWith(scopeString.str, workspaceFolderStr)
  THEN <<"WorkspaceFolder", "Workspace", "Global">>
  ELSE IF StartsWith(scopeString.str, workspaceStr)
  THEN <<"Workspace", "Global">>
  ELSE <<"Global">>

\* Lines 272-285: the scope chain; the empty chain stands for the invalid
\* value, on which the function logs and returns.
ScopesOf(scopeString) ==
  IF scopeString.null \/ StartsWith(scopeString.str, workspaceFolderStr)
  THEN <<"WorkspaceFolder", "Workspace", "Global">>
  ELSE IF StartsWith(scopeString.str, workspaceStr)
  THEN <<"Workspace", "Global">>
  ELSE IF StartsWith(scopeString.str, userStr)
          \/ StartsWith(scopeString.str, globalStr)
  THEN <<"Global">>
  ELSE <<>>

\* Line 287.
UseExternalFile(scopeString) ==
  scopeString.null \/ EndsWith(scopeString.str, ExternalFileStr)

\* resourceConfig.get(settingName, {}): the value of the setting as the
\* configuration store merges it over the scopes, language by language,
\* the most specific scope that has the language winning.
GetSetting(stored) ==
  [l \in UNION {DOMAIN stored[sc] : sc \in Scopes} |->
     stored[Precedence[CHOOSE k \in 1..Len(Precedence) :
                         /\ l \in DOMAIN stored[Precedence[k]]
                         /\ \A j \in 1..(k - 1) :
                              l \notin DOMAIN stored[Precedence[j]]]][l]]

RECURSIVE Deduplicate(_)
Deduplicate(sorted) ==
  IF Len(sorted) <= 1 THEN sorted
  ELSE IF sorted[1] = sorted[2] THEN Deduplicate(Tail(sorted))
  ELSE <<sorted[1]>> \o Deduplicate(Tail(sorted))

\* WorkspaceConfigurationRequestHandler.cleanUpWorkspaceSpecificStringArray:
\* duplicates removed, deterministic order.
cleanUpWorkspaceSpecificStringArray(array) == Deduplicate(SortCodeUnit(array))

\* Mutant of LanguageSettingValue: the existing list is not kept.
LanguageSettingValueOverwrite(settingValue, language, values) ==
  cleanUpWorkspaceSpecificStringArray(values)

\* Lines 327-331 for one language: the new list of the language.
LanguageSettingValue(settingValue, language, values) ==
  LET languageSettingValue ==
        IF language \in DOMAIN settingValue THEN settingValue[language] ELSE <<>>
  IN cleanUpWorkspaceSpecificStringArray(languageSettingValue \o values)

\* Lines 325-332: the loop over the entries.
RECURSIVE MergeEntries(_, _)
MergeEntries(settingValue, es) ==
  IF es = <<>> THEN settingValue
  ELSE MergeEntries(
         (Head(es).language :>
            LanguageSettingValue(settingValue, Head(es).language, Head(es).values))
         @@ settingValue,
         Tail(es))

\* The part of the state that the synchronous part of the add command can
\* change.
AddLocal == [externalFiles |-> externalFiles, appends |-> appends,
  tasks |-> tasks, loggedErrors |-> loggedErrors, scopes |-> scopes]

Attempt(scope) == [scope |-> scope, outcome |-> "pending"]

\* addToLanguageSpecificSettingInternalSetting up to its first await: it
\* reads the setting, merges the entries and calls update for the first
\* scope.  Nothing is written yet, so every call of one command reads the
\* same stored setting.
InternalSetting(st, chain, es) ==
  LET read == GetSetting(settings)
      task == [entries |-> es,
               scopes |-> chain,
               read |-> read,
               settingValue |-> MergeEntries(read, es),
               attempts |-> IF chain = <<>> THEN <<>> ELSE <<Attempt(chain[1])>>,
               status |-> IF chain = <<>> THEN "returned" ELSE "awaiting"]
  IN [st EXCEPT !.tasks = Append(@, task)]

\* ExternalFileManager.getFirstExternalFilePath: the path of the first
\* external file bound to the scope and language, or none.
getFirstExternalFilePath(files_, scope, language) ==
  IF <<scope, language>> \in DOMAIN files_ THEN {<<scope, language>>} ELSE {}

\* ExternalFileManager.appendToFile.
appendToFile(st, path, name, values) ==
  [st EXCEPT !.externalFiles = [@ EXCEPT ![path] = @ \o values],
             !.appends = Append(@, [path |-> path, settingName |-> name,
                                    values |-> values])]

\* Mutant of AppendScopes: the loop has no break.
AppendScopesNoBreak(files_, chain, language) ==
  SelectSeq(chain, LAMBDA sc : getFirstExternalFilePath(files_, sc, language) # {})

\* Lines 300-309: the scopes whose file the loop appends to: the first scope
\* of the chain that has a file, because of the break.
RECURSIVE AppendScopes(_, _, _)
AppendScopes(files_, chain, language) ==
  IF chain = <<>> THEN <<>>
  ELSE IF getFirstExternalFilePath(files_, Head(chain), language) # {}
  THEN <<Head(chain)>>
  ELSE AppendScopes(files_, Tail(chain), language)

RECURSIVE AppendAll(_, _, _, _)
AppendAll(st, targets, language, values) ==
  IF targets = <<>> THEN st
  ELSE AppendAll(appendToFile(st, <<Head(targets), language>>, settingName, values),
                 Tail(targets), language, values)

\* addToLanguageSpecificSettingExternalFile: the loop over the languages.
RECURSIVE ExternalFile(_, _, _)
ExternalFile(st, chain, es) ==
  IF es = <<>> THEN st
  ELSE LET language == Head(es).language
           targets == AppendScopes(st.externalFiles, chain, language)
           settingWritten == targets # <<>>
       IN ExternalFile(
            IF settingWritten
            THEN AppendAll(st, targets, language, Head(es).values)
            ELSE InternalSetting(st, chain, <<Head(es)>>),
            chain, Tail(es))

LogError(st, key, arg, cause) ==
  [st EXCEPT !.loggedErrors = Append(@, [msg |-> key, arg |-> arg, cause |-> cause])]

NoCause == [task |-> 0, scope |-> "none"]

\* addToLanguageSpecificSetting.
addToLanguageSpecificSetting(st, target, name, es) ==
  LET scopeString == ResolveScopeString(target, name)
      chain == ScopesOf(scopeString)
      withScopes == [st EXCEPT !.scopes = chain]
  IN IF chain = <<>>
     THEN LogError(st, "invalidValueForConfigurationTarget", scopeString.str, NoCause)
     ELSE IF UseExternalFile(scopeString) THEN ExternalFile(withScopes, chain, es)
     ELSE InternalSetting(withScopes, chain, es)

\* Mutant of AfterRejection: every rejection is logged.
AfterRejectionAlwaysLog(st, t) ==
  LET task == st.tasks[t]
      n == Len(task.attempts)
      rejected == [task EXCEPT !.attempts[n].outcome = "rejected"]
      logged == LogError(st, "couldNotSetConfiguration", <<settingName>>,
                  [task |-> t, scope |-> task.attempts[n].scope])
  IN IF n = Len(task.scopes)
     THEN [logged EXCEPT !.tasks[t] = [rejected EXCEPT !.status = "returned"]]
     ELSE [logged EXCEPT !.tasks[t] =
            [rejected EXCEPT !.attempts = Append(@, Attempt(task.scopes[n + 1]))]]

\* Lines 338-340: update was rejected at attempt number Len(attempts) of
\* task t; the loop logs after the last scope and otherwise calls update
\* for the next scope.
AfterRejection(st, t) ==
  LET task == st.tasks[t]
      n == Len(task.attempts)
      rejected == [task EXCEPT !.attempts[n].outcome = "rejected"]
  IN IF n = Len(task.scopes)
     THEN LogError([st EXCEPT !.tasks[t] = [rejected EXCEPT !.status = "returned"]],
            "couldNotSetConfiguration", <<settingName>>,
            [task |-> t, scope |-> task.attempts[n].scope])
     ELSE [st EXCEPT !.tasks[t] =
            [rejected EXCEPT !.attempts = Append(@, Attempt(task.scopes[n + 1]))]]

\* Lines 336-337: update was accepted; the task returns.
AfterAcceptance(st, t) ==
  [st EXCEPT !.tasks[t].attempts[Len(st.tasks[t].attempts)].outcome = "accepted",
             !.tasks[t].status = "returned"]

\* Mutant of checkCurrentDocument: the document is not checked.
checkCurrentDocumentOmitted(s) == s

\* checkCurrentDocument up to its await: without a language client or
\* without an active editor it shows an error; otherwise it calls
\* checkDocument, which sends the request.
checkCurrentDocument(s) ==
  IF languageClient = "null"
  THEN ShowErrorMessage(s, "ltexNotInitialized", <<>>)
  ELSE IF activeTextEditor = "null"
  THEN ShowErrorMessage(s, "noEditorOpenToCheckDocument", <<>>)
  ELSE [s EXCEPT !.requests = Append(@, ActiveDocument),
                 !.inFlight = @ \cup {Len(s.requests) + 1}]

\* ---------------------------------------------------------------- actions
\* One of the commands addToDictionary, disableRules, hideFalsePositives:
\* addToLanguageSpecificSetting up to the first await of each call it
\* starts, then checkCurrentDocument up to its await.
AddCommand ==
  /\ addPc = "idle"
  /\ addPc' = "called"
  /\ LET st == addToLanguageSpecificSetting(AddLocal, configurationTarget,
                 settingName, entries)
     IN /\ externalFiles' = st.externalFiles
        /\ appends' = st.appends
        /\ tasks' = st.tasks
        /\ loggedErrors' = st.loggedErrors
        /\ scopes' = st.scopes
  /\ Assign(checkCurrentDocument(Local))
  /\ UNCHANGED <<languageClient, enabled, workspaceFolders, files,
       isCancellationRequested, cancelledAt, found, uris, responses>>
  /\ UNCHANGED <<envVars, settings>>

\* The configuration store accepts the pending update of task t.
UpdateAccepted(t) ==
  /\ tasks[t].status = "awaiting"
  /\ settings' = [settings EXCEPT
       ![tasks[t].attempts[Len(tasks[t].attempts)].scope] = tasks[t].settingValue]
  /\ tasks' = AfterAcceptance(AddLocal, t).tasks
  /\ UNCHANGED <<batchVars, envVars, externalFiles, addPc, scopes, appends,
       loggedErrors>>

\* The configuration store rejects the pending update of task t.
UpdateRejected(t) ==
  /\ tasks[t].status = "awaiting"
  /\ LET st == AfterRejection(AddLocal, t)
     IN /\ tasks' = st.tasks
        /\ loggedErrors' = st.loggedErrors
  /\ UNCHANGED <<batchVars, envVars, settings, externalFiles, addPc, scopes,
       appends>>

\* The language server answers the check of the current document.
CurrentDocumentResponse ==
  /\ addPc = "called"
  /\ \E r \in inFlight, success \in BOOLEAN :
       /\ responses' = Append(responses, success)
       /\ inFlight' = inFlight \ {r}
       /\ shownErrors' = IF success THEN shownErrors
                         ELSE Append(shownErrors,
                                Msg("couldNotCheckDocument", requests[r]))
  /\ UNCHANGED <<languageClient, enabled, workspaceFolders, files,
       isCancellationRequested, cancelledAt, pc, found, uris, i, requests,
       returned>>
  /\ UNCHANGED <<envVars, addVars>>

InitAdd ==
  /\ languageClient \in {"null", "client"}
  /\ activeTextEditor \in {"null", "editor"}
  /\ languageClient = "null" => activeTextEditor = "editor"
  /\ configurationTarget \in ConfigurationTargets
  /\ settingName \in SettingNames
  /\ entries \in EntriesMaps
  /\ settings \in StoredSettings
  /\ externalFiles \in StoredExternalFiles
  /\ addPc = "idle"
  /\ scopes = <<>>
  /\ appends = <<>>
  /\ tasks = <<>>
  /\ loggedErrors = <<>>
  /\ enabled \in {e \in EnabledValues : e.kind = "boolean" /\ e.bool}
  /\ workspaceFolders = "folders"
  /\ files = {ActiveDocument}
  /\ isCancellationRequested = FALSE
  /\ cancelledAt = "never"
  /\ pc = "idle"
  /\ found = <<>>
  /\ uris = <<>>
  /\ i = 0
  /\ requests = <<>>
  /\ inFlight = {}
  /\ responses = <<>>
  /\ shownErrors = <<>>
  /\ returned = "none"

NextAdd ==
  \/ AddCommand
  \/ \E t \in 1..Len(tasks) : UpdateAccepted(t)
  \/ \E t \in 1..Len(tasks) : UpdateRejected(t)
  \/ CurrentDocumentResponse

SpecAdd == InitAdd /\ [][NextAdd]_vars

\* Any one of the commands: a batch check or an add command is run from a
\* state in which the other has not been started.
InitCommands == InitCheckAll \/ InitAdd

NextCommands ==
  \/ addPc = "idle" /\ NextCheckAll
  \/ pc = "idle" /\ NextAdd

SpecCommands == InitCommands /\ [][NextCommands]_vars
\* ================================================================ claims
\* ------------------------------------------------------------------- C1
\* C1: when the check of the document at position k is the first one to
\* report failure, the batch has returned false, exactly the documents at
\* positions 1..k of the sorted list have been requested, each once, and
\* nothing is outstanding: no request exists for a later document and the
\* failed document has not been requested a second time.
C1_FailFast ==
  \A k \in 1..Len(responses) :
    (~responses[k] /\ \A j \in 1..(k - 1) : responses[j])
      => /\ pc = "done"
         /\ returned = "false"
         /\ requests = SubSeq(uris, 1, k)
         /\ inFlight = {}
         /\ Len(responses) = k

\* Document 2 of 3 failed.
C1_Witness ==
  /\ Len(uris) = 3
  /\ responses = <<TRUE, FALSE>>
  /\ returned = "false"

\* ------------------------------------------------------------------- C2
\* C2: when the token is cancelled after findFiles has resolved and before
\* the first check has started, the command returns true and no check
\* request is sent, whatever documents were found.
C2_CancelAfterDiscovery ==
  (cancelledAt = "found" /\ pc = "done")
    => (returned = "true" /\ requests = <<>>)

\* ------------------------------------------------------------------- C3
\* C3: at most one check request is outstanding at any time, and the
\* request for a document is sent only after every earlier request has been
\* answered.
C3_OneOutstanding ==
  /\ Cardinality(inFlight) <= 1
  /\ Len(requests) <= Len(responses) + 1
  /\ inFlight \subseteq {Len(requests)}

\* The second request is outstanding, the first has been answered.
C3_Witness ==
  /\ Len(requests) = 2
  /\ inFlight = {2}
  /\ Len(responses) = 1

\* ------------------------------------------------------------------ C10
\* C10: the k-th check request is for the k-th smallest path (by
\* localeCompare) among the documents the enumeration returned, whatever
\* order it returned them in.
C10_AscendingPathOrder ==
  \A k \in 1..Len(requests) :
    /\ requests[k] \in Range(found)
    /\ Cardinality({f \in Range(found) :
                     LocaleCompare(f, requests[k]) < 0}) = k - 1

\* The enumeration returned b.tex, a.tex, c.tex and the requests went out
\* for a.tex, b.tex, c.tex.
C10_Witness ==
  /\ found = <<FileUniverse[1], FileUniverse[2], FileUniverse[3]>>
  /\ requests = <<FileUniverse[2], FileUniverse[1], FileUniverse[3]>>

\* ------------------------------------------- the add command: shared terms
\* The scope-preference string as the claims describe it: the setting named
\* settingName and, only when it is absent, its deprecated alias.
ClaimAlias == [n \in SettingNames |->
  CASE n = "dictionary" -> "addToDictionary"
    [] n = "disabledRules" -> "disableRule"
    [] n = "hiddenFalsePositives" -> "ignoreRuleInSentence"]

ClaimScopeString ==
  IF configurationTarget[settingName].null
  THEN configurationTarget[ClaimAlias[settingName]]
  ELSE configurationTarget[settingName]

ClaimFolderChain ==
  ClaimScopeString.null \/ StartsWith(ClaimScopeString.str, workspaceFolderStr)

ClaimWorkspaceChain ==
  /\ ~ClaimScopeString.null
  /\ StartsWith(ClaimScopeString.str, workspaceStr)
  /\ ~StartsWith(ClaimScopeString.str, workspaceFolderStr)

ClaimGlobalChain ==
  /\ ~ClaimScopeString.null
  /\ \/ StartsWith(ClaimScopeString.str, userStr)
     \/ StartsWith(ClaimScopeString.str, globalStr)

ClaimInvalid ==
  ~(ClaimFolderChain \/ ClaimWorkspaceChain \/ ClaimGlobalChain)

ClaimChain ==
  IF ClaimFolderChain THEN <<"WorkspaceFolder", "Workspace", "Global">>
  ELSE IF ClaimWorkspaceChain THEN <<"Workspace", "Global">>
  ELSE IF ClaimGlobalChain THEN <<"Global">>
  ELSE <<>>

ClaimExternalMode ==
  /\ ~ClaimInvalid
  /\ ClaimScopeString.null \/ EndsWith(ClaimScopeString.str, ExternalFileStr)

EntryLanguages(es) == {es[k].language : k \in 1..Len(es)}

HasFile(files_, chain, l) == \E k \in 1..Len(chain) : <<chain[k], l>> \in DOMAIN files_

FirstWithFile(files_, chain, l) ==
  chain[CHOOSE k \in 1..Len(chain) :
          /\ <<chain[k], l>> \in DOMAIN files_
          /\ \A j \in 1..(k - 1) : <<chain[j], l>> \notin DOMAIN files_]

\* ------------------------------------------------------------------- C4
\* C4: in external-file mode, once every inline write the command started
\* has completed with one of its updates accepted, there is one inline
\* write per language without an external file, carrying that language
\* only, and every entry of every language of the incoming map is stored in
\* an external file of the language or in the inline setting of the
\* language at some scope.
C4_EveryEntryPersisted ==
  ( /\ addPc = "called"
    /\ ClaimExternalMode
    /\ \A t \in 1..Len(tasks) :
         /\ tasks[t].status = "returned"
         /\ \E a \in 1..Len(tasks[t].attempts) :
              tasks[t].attempts[a].outcome = "accepted" )
  => /\ \A t \in 1..Len(tasks) : Len(tasks[t].entries) = 1
     /\ \A k \in 1..Len(entries) :
          \A w \in Range(entries[k].values) :
            \/ \E path \in DOMAIN externalFiles :
                 /\ path[2] = entries[k].language
                 /\ w \in Range(externalFiles[path])
            \/ \E sc \in Scopes :
                 /\ entries[k].language \in DOMAIN settings[sc]
                 /\ w \in Range(settings[sc][entries[k].language])

\* ------------------------------------------------------------------- C5
\* C5: with a scope-preference string that is not null and starts with
\* none of workspaceFolder, workspace, user, global, no step issues a
\* configuration update or an append or changes a stored setting or an
\* external file, and after the command exactly one error has been logged,
\* the one about the invalid value.
C5_InvalidScopeNoWrite ==
  [][ClaimInvalid =>
        /\ tasks' = <<>>
        /\ appends' = <<>>
        /\ settings' = settings
        /\ externalFiles' = externalFiles
        /\ addPc' = "called" =>
             /\ Len(loggedErrors') = 1
             /\ loggedErrors'[1].msg = "invalidValueForConfigurationTarget"
             /\ loggedErrors'[1].arg = ClaimScopeString.str]_vars

\* The command ran with the value "invalidScope", a non-empty entries map
\* and a non-empty stored setting.
C5_Witness ==
  /\ addPc = "called"
  /\ ClaimScopeString = Str(invalidScopeStr)
  /\ entries # <<>>
  /\ settings # NoSetting
  /\ externalFiles # <<>>
  /\ Len(loggedErrors) = 1

\* ------------------------------------------------------------------- C6
\* C6: in external-file mode the command makes, for each language of the
\* incoming map that has an external file at some scope of the chain,
\* exactly one append: to the file of the first such scope, with that
\* language's entries; the files of the other scopes keep their contents,
\* the set of files stays the same, no inline write carries that language,
\* and no later step appends anything.
C6_AppendToFirstFile ==
  [][ /\ (addPc = "idle" /\ addPc' = "called" /\ ClaimExternalMode) =>
           \A k \in 1..Len(entries) :
             LET l == entries[k].language
                 first == FirstWithFile(externalFiles, ClaimChain, l)
                 mine == {a \in 1..Len(appends') : appends'[a].path[2] = l}
             IN HasFile(externalFiles, ClaimChain, l) =>
                  /\ Cardinality(mine) = 1
                  /\ \A a \in mine :
                       /\ appends'[a].path = <<first, l>>
                       /\ appends'[a].values = entries[k].values
                  /\ DOMAIN externalFiles' = DOMAIN externalFiles
                  /\ \A path \in DOMAIN externalFiles :
                       path[2] = l =>
                         externalFiles'[path] =
                           IF path = <<first, l>>
                           THEN externalFiles[path] \o entries[k].values
                           ELSE externalFiles[path]
                  /\ \A t \in 1..Len(tasks') :
                       l \notin EntryLanguages(tasks'[t].entries)
      /\ addPc = "called" =>
           /\ appends' = appends
           /\ externalFiles' = externalFiles
           /\ Len(tasks') = Len(tasks) ]_vars

\* Two languages were added in external-file mode: one had files at two
\* scopes of the chain and got one append, the other had none and got an
\* inline write.
C6_Witness ==
  /\ addPc = "called"
  /\ ClaimExternalMode
  /\ Len(entries) = 2
  /\ Len(appends) = 1
  /\ Cardinality({path \in DOMAIN externalFiles :
                   /\ path[2] = appends[1].path[2]
                   /\ path[1] \in Range(ClaimChain)}) = 2
  /\ Len(tasks) = 1

\* ------------------------------------------------------------------- C7
\* C7: the update attempts of one inline write are the first scopes of its
\* chain in order, each attempt but the last one was rejected, the write
\* has returned once an attempt was accepted or the whole chain rejected,
\* and the errors logged for it are exactly one, naming the setting and the
\* last rejection, when every scope of the chain rejected, and none
\* otherwise.
C7_ScopeFallback ==
  \A t \in 1..Len(tasks) :
    LET a == tasks[t].attempts
        chain == tasks[t].scopes
        exhausted == /\ Len(a) = Len(chain)
                     /\ \A j \in 1..Len(a) : a[j].outcome = "rejected"
        logged == {e \in 1..Len(loggedErrors) : loggedErrors[e].cause.task = t}
    IN /\ Len(a) <= Len(chain)
       /\ \A j \in 1..Len(a) : a[j].scope = chain[j]
       /\ \A j \in 1..(Len(a) - 1) : a[j].outcome = "rejected"
       /\ (tasks[t].status = "returned") <=>
            (exhausted \/ \E j \in 1..Len(a) : a[j].outcome = "accepted")
       /\ (tasks[t].status = "awaiting") <=>
            (a # <<>> /\ a[Len(a)].outcome = "pending")
       /\ Cardinality(logged) = IF exhausted THEN 1 ELSE 0
       /\ \A e \in logged :
            /\ loggedErrors[e].msg = "couldNotSetConfiguration"
            /\ loggedErrors[e].arg = <<settingName>>
            /\ loggedErrors[e].cause.scope = chain[Len(chain)]

\* An inline write over the three-scope chain was rejected at every scope
\* and logged once.
C7_Witness ==
  \E t \in 1..Len(tasks) :
    /\ Len(tasks[t].scopes) = 3
    /\ Len(tasks[t].attempts) = 3
    /\ tasks[t].attempts[3].outcome = "rejected"
    /\ tasks[t].status = "returned"
    /\ Len(loggedErrors) = 1

\* ------------------------------------------------------------------- C8
\* C8: after the command the chain it derived is [folder, workspace,
\* global] for a null string or one starting with workspaceFolder,
\* [workspace, global] for one starting with workspace but not
\* workspaceFolder, [global] for one starting with user or global, where
\* the string is the setting named settingName or, only if that is absent,
\* its deprecated alias; every inline write runs over that chain, and
\* whenever an update or an append was made the chain is not empty.
C8_ScopeChain ==
  addPc = "called" =>
    /\ ClaimFolderChain => scopes = <<"WorkspaceFolder", "Workspace", "Global">>
    /\ ClaimWorkspaceChain => scopes = <<"Workspace", "Global">>
    /\ (ClaimGlobalChain /\ ~ClaimWorkspaceChain /\ ~ClaimFolderChain)
         => scopes = <<"Global">>
    /\ \A t \in 1..Len(tasks) : tasks[t].scopes = scopes
    /\ (tasks # <<>> \/ appends # <<>>) => scopes # <<>>

\* The setting is absent, its alias addToDictionary says "workspace", and
\* an inline write runs over [workspace, global].
C8_Witness ==
  /\ addPc = "called"
  /\ settingName = "dictionary"
  /\ configurationTarget["dictionary"].null
  /\ configurationTarget["addToDictionary"] = Str(workspaceStr)
  /\ configurationTarget["disableRule"] # Str(workspaceStr)
  /\ scopes = <<"Workspace", "Global">>
  /\ tasks # <<>>

\* ------------------------------------------------------------------- C9
\* C9: for every language of the entries of an inline write, the list the
\* write stores for the language has no duplicates, is in ascending order
\* and holds exactly the entries of the existing list (none when the
\* language was absent) and the new entries.
C9_MergeNormalized ==
  \A t \in 1..Len(tasks) :
    \A k \in 1..Len(tasks[t].entries) :
      LET l == tasks[t].entries[k].language
          existing == IF l \in DOMAIN tasks[t].read THEN tasks[t].read[l] ELSE <<>>
          written == tasks[t].settingValue[l]
      IN /\ \A x, y \in 1..Len(written) :
              x < y => CodeUnitCompare(written[x], written[y]) < 0
         /\ Range(written) = Range(existing) \cup Range(tasks[t].entries[k].values)

\* Existing {en-US: [foo]} plus added {en-US: [foo, bar]} gives [bar, foo].
C9_Witness ==
  \E t \in 1..Len(tasks) :
    /\ tasks[t].read = ("en-US" :> <<foo>>)
    /\ tasks[t].entries = <<[language |-> "en-US", values |-> <<foo, bar>>]>>
    /\ tasks[t].settingValue["en-US"] = <<bar, foo>>


\* ---------------------------------------------------------------- C11
\* The enabled extension set of the claims, read off the table of C14: no
\* extension is enabled when the setting is false or a list naming none of
\* the four code languages.
ClaimExtensionsEmpty ==
  \/ enabled.kind = "boolean" /\ ~enabled.bool
  \/ /\ enabled.kind = "list"
     /\ Range(enabled.ids) \cap {"bibtex", "latex", "rsweave", "markdown"} = {}

\* The one message the batch shows when nothing was found.
ClaimNothingFound ==
  Msg(IF workspaceFolders = "null"
      THEN "couldNotCheckDocumentsAsNoFoldersWereOpened"
      ELSE "couldNotCheckDocumentsAsNoDocumentsWereFound", <<>>)

\* C11 as stated: with an empty enabled extension set
\* checkAllDocumentsInWorkspace returns true. It does not when the
\* language client is missing at the invocation.
C11_EmptySetReturnsTrue ==
  (pc = "done" /\ ClaimExtensionsEmpty) => returned = "true"

\* C11, amended: when discovery yields zero documents the batch returns
\* false and shows exactly one error message, no-folders-opened without a
\* workspace root and no-documents-found otherwise; when the enabled
\* extension set is empty and the language client exists at the
\* invocation, the batch returns true without enumerating or checking any
\* document and without showing a message.
C11_NothingToCheck ==
  [][/\ (pc = "found" /\ pc' = "done" /\ found = <<>>) =>
          /\ ~ClaimExtensionsEmpty
          /\ returned' = "false"
          /\ shownErrors' = <<ClaimNothingFound>>
          /\ requests' = <<>>
     /\ (ClaimExtensionsEmpty /\ pc = "progress" /\ pc' # "progress") =>
          /\ pc' = "done"
          /\ returned' = "true"
          /\ shownErrors' = <<>>
          /\ found' = <<>>
          /\ requests' = <<>>
     /\ ClaimExtensionsEmpty => pc' \notin {"finding", "found", "checking"}
    ]_vars

\* Nothing was found although extensions are enabled, and no workspace
\* root is open.
C11_Witness ==
  /\ pc = "done"
  /\ ~ClaimExtensionsEmpty
  /\ workspaceFolders = "null"
  /\ returned = "false"
  /\ shownErrors = <<ClaimNothingFound>>

\* ---------------------------------------------------------------- C12
\* What a scope of the configuration store holds for a language: the list
\* in a one-element sequence, or nothing.
ClaimStored(stored, sc, l) ==
  IF l \in DOMAIN stored[sc] THEN <<stored[sc][l]>> ELSE <<>>

\* C12: no step of an add command changes what is stored for a language
\* that is absent from the incoming entries map, in any scope of the
\* configuration store or in any external file.
C12_AbsentLanguagesUntouched ==
  [][\A l \in Range(LanguageUniverse) \ EntryLanguages(entries) :
       /\ \A sc \in Scopes :
            ClaimStored(settings', sc, l) = ClaimStored(settings, sc, l)
       /\ \A path \in DOMAIN externalFiles :
            path[2] = l => externalFiles'[path] = externalFiles[path]
    ]_vars

\* ---------------------------------------------------------------- C13
\* C13: with an empty entries map and a valid configuration target, an add
\* command is a no-op in both storage modes: no configuration update is
\* ever issued, nothing is appended, no error is logged, and every stored
\* setting and external file stays as it was.
C13_EmptyMapNoOp ==
  [][(entries = <<>> /\ ~ClaimInvalid) =>
       /\ tasks' = <<>>
       /\ appends' = <<>>
       /\ loggedErrors' = <<>>
       /\ settings' = settings
       /\ externalFiles' = externalFiles
    ]_vars

\* ---------------------------------------------------------------- C14
\* The table of the claim: the extension a code language id enables.
ClaimMapped(id) ==
  CASE id = "bibtex" -> {bib}
    [] id \in {"latex", "rsweave"} -> {tex}
    [] id = "markdown" -> {md}
    [] OTHER -> {}

\* The ascending order of the three extensions.
ClaimRank(ext) == CHOOSE n \in 1..3 : <<bib, md, tex>>[n] = ext

\* C14: getEnabledFileExtensions returns the extensions bib, md, tex for
\* true, the empty list for false, and for a list of ids exactly the union
\* of the extensions its ids map to (bibtex: bib; latex and rsweave: tex;
\* markdown: md; any other id: nothing); the result has no duplicates and
\* is in ascending order.
C14_EnabledFileExtensions ==
  LET result == getEnabledFileExtensions(enabled)
  IN /\ (enabled.kind = "boolean" /\ enabled.bool) => result = <<bib, md, tex>>
     /\ (enabled.kind = "boolean" /\ ~enabled.bool) => result = <<>>
     /\ enabled.kind = "list" =>
          Range(result) = UNION {ClaimMapped(enabled.ids[k]) :
                                   k \in 1..Len(enabled.ids)}
     /\ \A j, k \in 1..Len(result) :
          j < k => ClaimRank(result[j]) < ClaimRank(result[k])

\* Discovery runs with the extensions of a list that names tex twice and
\* md before it.
C14_Witness ==
  /\ enabled.kind = "list"
  /\ enabled.ids = <<"rsweave", "markdown", "latex">>
  /\ pc = "found"
  /\ found # <<>>
  /\ \A k \in 1..Len(found) : Matches(found[k], <<md, tex>>)

\* ---------------------------------------------------------------- C16
\* C16: the token is polled before discovery and before each document, and
\* a poll that finds it set makes the batch return true at once; so no
\* step taken while the token is set sends a check request, and setting
\* the token leaves a check that is in flight where it is, to complete.
C16_NoRequestAfterCancel ==
  [][/\ isCancellationRequested => requests' = requests
     /\ (isCancellationRequested /\ pc = "progress" /\ pc' # pc) =>
          (pc' = "done" /\ returned' = "true" /\ found' = <<>>)
     /\ (isCancellationRequested /\ pc = "found" /\ found # <<>> /\ pc' # pc) =>
          (pc' = "done" /\ returned' = "true")
     /\ (isCancellationRequested /\ pc = "checking"
           /\ responses' = Append(responses, TRUE)
           /\ Len(requests) < Len(uris)) =>
          (pc' = "done" /\ returned' = "true")
     /\ (~isCancellationRequested /\ isCancellationRequested') =>
          (inFlight' = inFlight /\ pc' = pc /\ returned' = returned)
     /\ (isCancellationRequested /\ pc = "checking") =>
          (inFlight # {} /\ ENABLED CheckResponse)
    ]_vars

\* Cancelled during the first of three checks: that check completed, no
\* second request was sent, the batch returned true.
C16_Witness ==
  /\ cancelledAt = "checking"
  /\ Len(uris) = 3
  /\ requests = <<uris[1]>>
  /\ responses = <<TRUE>>
  /\ pc = "done"
  /\ returned = "true"

\* ---------------------------------------------------------------- C19
\* C19: when the token was set while the check of a document was in
\* flight, the result of that check decides the batch: on failure the batch
\* returns false, with the failure shown; on success it returns true and
\* sends no further request.
C19_FailureNotMasked ==
  [][(isCancellationRequested /\ pc = "checking"
        /\ Len(responses') = Len(responses) + 1) =>
       LET success == responses'[Len(responses')]
       IN /\ pc' = "done"
          /\ requests' = requests
          /\ returned' = IF success THEN "true" ELSE "false"
          /\ ~success =>
               shownErrors' = Append(shownErrors,
                 Msg("couldNotCheckDocument", requests[Len(requests)]))
          /\ success => shownErrors' = shownErrors
    ]_vars

\* The check of the first of two documents failed after the token was set
\* during it.
C19_Witness ==
  /\ cancelledAt = "checking"
  /\ Len(uris) = 2
  /\ responses = <<FALSE>>
  /\ pc = "done"
  /\ returned = "false"

\* ---------------------------------------------------------------- C20
\* C20: when findFiles and every check request sent are eventually
\* answered, an invoked checkAllDocumentsInWorkspace eventually returns a
\* boolean; it never has sent more check requests than documents were
\* found, and never two for the same document.
C20_Terminates ==
  /\ [](/\ Len(requests) <= Len(found)
        /\ \A j, k \in 1..Len(requests) : j < k => requests[j] # requests[k]
        /\ Range(requests) \subseteq Range(found))
  /\ (pc # "idle") ~> (pc = "done" /\ returned \in {"true", "false"})

\* Three documents were found and each was checked once.
C20_Witness ==
  /\ Len(found) = 3
  /\ Len(requests) = 3
  /\ pc = "done"
  /\ returned = "true"

\* ---------------------------------------------------------------- C15
\* The asynchronous operations that have been started and not yet
\* answered: check requests, configuration updates, the enumeration.
ClaimInFlight ==
  Cardinality(inFlight)
    + Cardinality({t \in 1..Len(tasks) : tasks[t].status = "awaiting"})
    + (IF pc = "finding" THEN 1 ELSE 0)

\* C15: within one command invocation at most one asynchronous operation
\* (check request, configuration update, external-file append) is in
\* flight at any time.
C15_OneOperationInFlight == ClaimInFlight <= 1

C18_EveryFailureNotified ==
  \A k \in 1..Len(loggedErrors) :
    \E m \in 1..Len(shownErrors) : shownErrors[m].msg = loggedErrors[k].msg

\* The messages that checkCurrentDocument can show when it is called.
ClaimRecheckMessages ==
  {Msg("ltexNotInitialized", <<>>), Msg("noEditorOpenToCheckDocument", <<>>)}

\* Task t gives up in this step: its update for the last scope was rejected.
ClaimGivesUp(t) ==
  /\ tasks[t].status = "awaiting"
  /\ tasks'[t].status = "returned"
  /\ tasks'[t].attempts[Len(tasks'[t].attempts)].outcome = "rejected"

\* C18, amended: a missing language client, a batch that finds nothing and
\* a failed check are each reported by exactly one error notification
\* (and make the batch return false); an invalid configuration target and
\* a write rejected at every scope are each reported by exactly one logged
\* error and by no notification; nothing else is logged, and every command
\* ends by returning, never by throwing.
C18_FailuresReported ==
  [][/\ (pc = "idle" /\ pc' # "idle" /\ languageClient = "null") =>
          /\ shownErrors' = Append(shownErrors, Msg("ltexNotInitialized", <<>>))
          /\ returned' = "false"
     /\ (addPc = "idle" /\ addPc' = "called" /\ languageClient = "null") =>
          shownErrors' = Append(shownErrors, Msg("ltexNotInitialized", <<>>))
     /\ (pc = "found" /\ pc' = "done" /\ found = <<>>) =>
          /\ shownErrors' = Append(shownErrors, ClaimNothingFound)
          /\ returned' = "false"
     /\ (Len(responses') = Len(responses) + 1 /\ ~responses'[Len(responses')]) =>
          /\ \E r \in inFlight \ inFlight' :
               shownErrors' = Append(shownErrors,
                                Msg("couldNotCheckDocument", requests[r]))
          /\ pc # "idle" => returned' = "false"
     /\ (returned = "none" /\ returned' = "false") =>
          Len(shownErrors') = Len(shownErrors) + 1
     /\ (addPc = "idle" /\ addPc' = "called" /\ ClaimInvalid) =>
          /\ loggedErrors' = <<[msg |-> "invalidValueForConfigurationTarget",
                                arg |-> ClaimScopeString.str,
                                cause |-> NoCause]>>
          /\ Range(shownErrors') \subseteq ClaimRecheckMessages
     /\ \A t \in 1..Len(tasks) :
          ClaimGivesUp(t) =>
            /\ Len(loggedErrors') = Len(loggedErrors) + 1
            /\ loggedErrors'[Len(loggedErrors')].msg = "couldNotSetConfiguration"
            /\ shownErrors' = shownErrors
     /\ loggedErrors' # loggedErrors =>
          \/ addPc = "idle" /\ ClaimInvalid
          \/ \E t \in 1..Len(tasks) : ClaimGivesUp(t)
     /\ returned' \in {"none", "true", "false"}
     /\ \A t \in 1..Len(tasks') : tasks'[t].status \in {"awaiting", "returned"}
    ]_vars

\* A write was rejected at every scope and the re-check failed: one logged
\* error, one notification.
C18_Witness ==
  /\ addPc = "called"
  /\ Len(loggedErrors) = 1
  /\ loggedErrors[1].msg = "couldNotSetConfiguration"
  /\ shownErrors = <<Msg("couldNotCheckDocument", ActiveDocument)>>
====
